---- MODULE Spec2Model ----
(***************************************************************************)
(* Model of scripts/optimize.ts: the SVG optimisation pipeline             *)
(* (ensureDir, optimizeSvg, getSvgFiles, processFiles).                     *)
(*                                                                         *)
(* Strings are sequences of one-character strings, so that toLowerCase,    *)
(* endsWith and path.basename are computed character by character.  A path *)
(* is a sequence of components; PathStr joins it with "/".                 *)
(***************************************************************************)
EXTENDS Integers, Sequences, FiniteSets, TLC

\* ------------------------------------------------------------------ bounds
\* Largest number of entries (files and directories) in the source tree.
MaxNodes == 3

\* ----------------------------------------------------------------- strings
DotSvg == <<".", "s", "v", "g">>
Dash == <<"-">>
Slash == "/"

ToLowerChar(c) ==
  CASE c = "S" -> "s"
    [] c = "V" -> "v"
    [] c = "G" -> "g"
    [] OTHER -> c

toLowerCase(s) == [k \in 1..Len(s) |-> ToLowerChar(s[k])]

endsWith(s, suffix) ==
  /\ Len(suffix) <= Len(s)
  /\ SubSeq(s, Len(s) - Len(suffix) + 1, Len(s)) = suffix

\* Index of the last "/" of a string, 0 when there is none.
LastSlash(s) ==
  LET idx == {k \in 1..Len(s) : s[k] = Slash}
  IN IF idx = {} THEN 0 ELSE CHOOSE k \in idx : \A m \in idx : m <= k

\* path.basename(p): the part of the string after its last "/".
basename(s) == SubSeq(s, LastSlash(s) + 1, Len(s))

\* path.basename(p, ext): the last component, with ext removed when the
\* component ends with exactly ext (case-sensitive) and is longer than it.
\* A string that is ext itself gives the empty string.
basenameExt(s, ext) ==
  LET b == basename(s)
  IN IF s = ext THEN <<>>
     ELSE IF endsWith(b, ext) /\ Len(b) > Len(ext)
          THEN SubSeq(b, 1, Len(b) - Len(ext))
          ELSE b

RECURSIVE PathStr(_)
\* path.resolve / path.join: the components joined with "/".
PathStr(p) ==
  IF p = <<>> THEN <<>>
  ELSE PathStr(SubSeq(p, 1, Len(p) - 1)) \o <<Slash>> \o p[Len(p)]

\* --------------------------------------------------------------- locations
RAW_DIR == << <<"r", "a", "w">> >>
OPTIMIZED_DIR == << <<"o", "p", "t">> >>
ManifestName == <<"m", "a", "n", "i", "f", "e", "s", "t", ".", "j", "s", "o", "n">>

\* File names the source tree draws from: a lower-case extension, an
\* upper-case one, a double extension, and a file that is not an SVG.
FileNames ==
  { <<"a", ".", "s", "v", "g">>,
    <<"a", ".", "S", "V", "G">>,
    <<"a", ".", "S", "V", "G", ".", "s", "v", "g">>,
    <<"b", ".", "t", "x", "t">> }
DirNames == { <<"d">>, <<"e">> }

\* ------------------------------------------------------------- source tree
\* A directory listing is a sequence of entries in the order readdir returns
\* them; an entry is a file or a directory with its own listing.
FileEntry(n) == [name |-> n, isDir |-> FALSE, kids |-> <<>>]
DirEntry(n, l) == [name |-> n, isDir |-> TRUE, kids |-> l]

EntryNames(l) == {l[k].name : k \in 1..Len(l)}

RECURSIVE Listings(_, _, _)
\* All listings with at most n entries in total (at every depth), the names
\* within one directory distinct, the files named from fs and the
\* directories from ds.
Listings(n, fs, ds) ==
  IF n = 0 THEN {<<>>}
  ELSE {<<>>}
       \cup UNION {
              {<<FileEntry(f)>> \o r :
                 r \in {x \in Listings(n - 1, fs, ds) : f \notin EntryNames(x)}}
              : f \in fs}
       \cup UNION {
              UNION {
                {<<DirEntry(d, kids)>> \o r : kids \in Listings(k, fs, ds),
                   r \in {x \in Listings(n - 1 - k, fs, ds) : d \notin EntryNames(x)}}
                : k \in 0..(n - 1)}
              : d \in ds}

\* The source trees of Spec: directories nest but have one name, so that no
\* two directories are siblings (SpecWalk has sibling directories).
TreeDirNames == { <<"d">> }
Trees == Listings(MaxNodes, FileNames, TreeDirNames)

RECURSIVE ListingAt(_, _)
\* The listing of the directory reached from listing l along the names rel.
ListingAt(l, rel) ==
  IF rel = <<>> THEN l
  ELSE LET e == CHOOSE x \in {l[k] : k \in 1..Len(l)} : x.name = rel[1] /\ x.isDir
       IN ListingAt(e.kids, Tail(rel))

RECURSIVE Concat(_)
\* Array.prototype.concat(...files): the arrays appended in order.
Concat(ss) == IF ss = <<>> THEN <<>> ELSE Head(ss) \o Concat(Tail(ss))

\* ------------------------------------------------------------------- state
VARIABLES
  rawExists,     \* whether the source root exists
  tree,          \* listing of the source root
  destExists,    \* whether the destination directory exists
  dest,          \* destination directory: file name -> data
  dest0,         \* destination directory when the current run started
  pc,            \* the await processFiles is suspended at
  pending,       \* directories whose readdir is in flight
  listed,        \* directories whose readdir has resolved
  allSvgFiles,   \* result of getSvgFiles(RAW_DIR)
  i,             \* position of the for-of loop in allSvgFiles
  optimizedSvg,  \* result of optimizeSvg for the current file
  events,        \* calls, results and console lines of the current run
  exitCode,      \* exit code of the current run, NoExit while it runs
  run,           \* number of the current run
  prevDest,      \* destination directory when the previous run ended
  prevExit       \* exit code of the previous run

vars == <<rawExists, tree, destExists, dest, dest0, pc, pending, listed,
          allSvgFiles, i, optimizedSvg, events, exitCode, run, prevDest,
          prevExit>>

\* The exit code is a sequence: empty while the process runs, <<code>> after.
NoExit == <<>>
NoData == "none"
EmptyDir == <<>>

Ev(kind, op, arg) == [kind |-> kind, op |-> op, arg |-> arg]
Log(line, arg) == Ev("log", line, arg)

\* Data left in the destination by something other than the modelled runs.
StaleFile == <<"z", ".", "s", "v", "g">>
StaleData == [stale |-> TRUE]
StaleDir == (StaleFile :> StaleData) @@ (ManifestName :> StaleData)

\* Variant of AccessOk: mkdir is issued although the probe succeeded.
AccessOkThenMkdir ==
  /\ pc = "access"
  /\ destExists
  /\ pc' = "mkdir"
  /\ events' = events \o <<Ev("ok", "access", OPTIMIZED_DIR),
                           Ev("call", "mkdir", OPTIMIZED_DIR)>>
  /\ UNCHANGED <<rawExists, tree, destExists, dest, dest0, pending, listed,
                 allSvgFiles, i, optimizedSvg, exitCode, run, prevDest,
                 prevExit>>

\* ---------------------------------------------------------------- ensureDir
\* fs.access(dir) resolves: ensureDir returns and getSvgFiles(RAW_DIR)
\* issues the first readdir.
AccessOk ==
  /\ pc = "access"
  /\ destExists
  /\ pc' = "walk"
  /\ pending' = {RAW_DIR}
  /\ events' = events \o <<Ev("ok", "access", OPTIMIZED_DIR),
                           Ev("call", "readdir", RAW_DIR)>>
  /\ UNCHANGED <<rawExists, tree, destExists, dest, dest0, listed,
                 allSvgFiles, i, optimizedSvg, exitCode, run, prevDest,
                 prevExit>>

\* Variant of AccessFail: the failed probe is ignored and no mkdir is issued.
AccessFailSkipsMkdir ==
  /\ pc = "access"
  /\ pc' = "walk"
  /\ pending' = {RAW_DIR}
  /\ events' = events \o <<Ev("err", "access", OPTIMIZED_DIR),
                           Ev("call", "readdir", RAW_DIR)>>
  /\ UNCHANGED <<rawExists, tree, destExists, dest, dest0, listed,
                 allSvgFiles, i, optimizedSvg, exitCode, run, prevDest,
                 prevExit>>

\* fs.access(dir) rejects (missing, or not accessible): mkdir is issued.
AccessFail ==
  /\ pc = "access"
  /\ pc' = "mkdir"
  /\ events' = events \o <<Ev("err", "access", OPTIMIZED_DIR),
                           Ev("call", "mkdir", OPTIMIZED_DIR)>>
  /\ UNCHANGED <<rawExists, tree, destExists, dest, dest0, pending, listed,
                 allSvgFiles, i, optimizedSvg, exitCode, run, prevDest,
                 prevExit>>

\* fs.mkdir(dir, {recursive: true}) resolves; an existing directory is kept.
MkdirOk ==
  /\ pc = "mkdir"
  /\ destExists' = TRUE
  /\ pc' = "walk"
  /\ pending' = {RAW_DIR}
  /\ events' = events \o <<Ev("ok", "mkdir", OPTIMIZED_DIR),
                           Ev("call", "readdir", RAW_DIR)>>
  /\ UNCHANGED <<rawExists, tree, dest, dest0, listed, allSvgFiles, i,
                 optimizedSvg, exitCode, run, prevDest, prevExit>>

\* Variant of Catch: the process exits with 1 without logging the error.
CatchSilent(before, op, arg) ==
  /\ pc' = "failed"
  /\ exitCode' = <<1>>
  /\ pending' = {}
  /\ events' = events \o before \o <<Ev("err", op, arg), Ev("exit", "exit", 1)>>
  /\ UNCHANGED <<rawExists, tree, destExists, dest, dest0, listed,
                 allSvgFiles, i, optimizedSvg, run, prevDest, prevExit>>

\* Variant of Catch: the error is logged but process.exit(1) is not called,
\* so the process ends with exit code 0.
CatchNoExit(before, op, arg) ==
  /\ pc' = "failed"
  /\ exitCode' = <<0>>
  /\ pending' = {}
  /\ events' = events \o before \o <<Ev("err", op, arg), Log("error", op),
                                      Ev("exit", "exit", 0)>>
  /\ UNCHANGED <<rawExists, tree, destExists, dest, dest0, listed,
                 allSvgFiles, i, optimizedSvg, run, prevDest, prevExit>>

\* ------------------------------------------------------------ catch block
\* The rejection of the awaited call reaches the catch block of
\* processFiles: console.error, then process.exit(1).
Catch(before, op, arg) ==
  /\ pc' = "failed"
  /\ exitCode' = <<1>>
  /\ pending' = {}
  /\ events' = events \o before \o <<Ev("err", op, arg), Log("error", op),
                                      Ev("exit", "exit", 1)>>
  /\ UNCHANGED <<rawExists, tree, destExists, dest, dest0, listed,
                 allSvgFiles, i, optimizedSvg, run, prevDest, prevExit>>

MkdirFail ==
  /\ pc = "mkdir"
  /\ Catch(<<>>, "mkdir", OPTIMIZED_DIR)

\* -------------------------------------------------------------- getSvgFiles
\* fs.readdir(dir, {withFileTypes: true}) of a directory under RAW_DIR.
readdir(dir) == ListingAt(tree, SubSeq(dir, Len(RAW_DIR) + 1, Len(dir)))

\* Variant of CanList: a missing source root lists as an empty directory.
CanListAlways(dir) == TRUE

\* fs.readdir resolves only for a directory that exists.
CanList(dir) == dir = RAW_DIR => rawExists

\* The directories getSvgFiles recurses into from dir.
SubDirs(dir) ==
  LET entries == readdir(dir)
  IN {Append(dir, entries[k].name) : k \in {m \in 1..Len(entries) : entries[m].isDir}}

\* Variant of IsSvgPath: the extension is compared case-sensitively.
IsSvgPathCaseSensitive(file) == endsWith(PathStr(file), DotSvg)

\* Variant of IsSvgPath: no filter, every file is kept.
IsSvgPathUnfiltered(file) == TRUE

\* The filter of getSvgFiles.
IsSvgPath(file) == endsWith(toLowerCase(PathStr(file)), DotSvg)

\* Variant of getSvgFiles: every listing pushes its matching files onto one
\* shared array when it resolves, so the result is in completion order.
getSvgFilesCompletionOrder(dir) ==
  LET done == SelectSeq(events, LAMBDA e : e.kind = "ok" /\ e.op = "readdir")
      last == IF pending = {} THEN <<>> ELSE <<CHOOSE d \in pending : TRUE>>
      dirs == [k \in 1..Len(done) |-> done[k].arg] \o last
      own(d) == LET entries == readdir(d)
                    paths == [k \in 1..Len(entries) |-> Append(d, entries[k].name)]
                    isFile(q) == \A k \in 1..Len(entries) :
                                   paths[k] = q => ~entries[k].isDir
                IN SelectSeq(paths, LAMBDA q : isFile(q) /\ IsSvgPath(q))
  IN Concat([k \in 1..Len(dirs) |-> own(dirs[k])])

RECURSIVE getSvgFiles(_)
\* What getSvgFiles(dir) resolves to once every readdir below dir resolved:
\* Promise.all keeps the entries' positions, concat flattens one level.
getSvgFiles(dir) ==
  LET entries == readdir(dir)
      files == [k \in 1..Len(entries) |->
                  LET res == Append(dir, entries[k].name)
                  IN IF entries[k].isDir THEN getSvgFiles(res) ELSE <<res>>]
  IN SelectSeq(Concat(files), IsSvgPath)

\* --------------------------------------------------------------- optimizeSvg
PrefixIdsPrefix(filename) == basenameExt(filename, DotSvg) \o Dash

\* Variant of Config: multipass is off and sortAttrs runs before removeXMLNS.
ConfigReordered(filename) ==
  [path |-> filename,
   multipass |-> FALSE,
   plugins |-> <<
     [name |-> "preset-default", params |-> "no overrides"],
     [name |-> "prefixIds", params |-> PrefixIdsPrefix(filename)],
     [name |-> "sortAttrs", params |-> "none"],
     [name |-> "removeXMLNS", params |-> "none"],
     [name |-> "addAttributesToSVGElement",
      params |-> <<"aria-hidden=true", "width=24", "height=24",
                   "fill=currentColor">>] >>]

Config(filename) ==
  [path |-> filename,
   multipass |-> TRUE,
   plugins |-> <<
     [name |-> "preset-default", params |-> "no overrides"],
     [name |-> "prefixIds", params |-> PrefixIdsPrefix(filename)],
     [name |-> "removeXMLNS", params |-> "none"],
     [name |-> "sortAttrs", params |-> "none"],
     [name |-> "addAttributesToSVGElement",
      params |-> <<"aria-hidden=true", "width=24", "height=24",
                   "fill=currentColor">>] >>]

\* The engine is opaque and deterministic: its result is determined by the
\* content and the configuration it was given.
optimize(svgContent, config) == [of |-> svgContent, config |-> config]

optimizeSvg(svgContent, filename) == optimize(svgContent, Config(filename))

\* ------------------------------------------------------------- processFiles
\* fs.readFile(filePath, 'utf8'): every source file has its own content.
readFile(filePath) == [raw |-> filePath]

\* Variant of writeFile: an existing file is kept (exclusive create).
writeFileKeep(d, name, data) == d @@ (name :> data)

\* fs.writeFile(path.join(OPTIMIZED_DIR, name), data): create or replace.
writeFile(d, name, data) == (name :> data) @@ d

\* JSON.stringify({ icons: iconNames }, null, 2)
Stringify(names) == [icons |-> names, indent |-> 2]

\* Variant of iconNames: the names are appended to those of the manifest
\* already in the destination.
iconNamesMerged ==
  (IF ManifestName \in DOMAIN dest /\ "icons" \in DOMAIN dest[ManifestName]
   THEN dest[ManifestName].icons ELSE <<>>)
  \o [k \in 1..Len(allSvgFiles) |->
        basenameExt(PathStr(allSvgFiles[k]), DotSvg)]

iconNames == [k \in 1..Len(allSvgFiles) |->
                basenameExt(PathStr(allSvgFiles[k]), DotSvg)]

FileOf(filePath) == basename(PathStr(filePath))

\* Variant of outputPath: the optimized file is written in place, next to
\* the source files in the source root.
outputPathInPlace(file) == Append(RAW_DIR, file)

\* path.join(OPTIMIZED_DIR, file)
outputPath(file) == Append(OPTIMIZED_DIR, file)
manifestPath == Append(OPTIMIZED_DIR, ManifestName)

\* Variant of AfterLoop: the manifest write is issued before the summary
\* line is logged.
AfterLoopManifestFirst(n) ==
  <<Ev("call", "write", manifestPath), Log("complete", n)>>

\* What follows the for-of loop up to the next await: the summary line and
\* the call that writes the manifest.
AfterLoop(n) == <<Log("complete", n), Ev("call", "write", manifestPath)>>

\* A readdir resolves; getSvgFiles recurses into the subdirectories.  When
\* it was the last one, allSvgFiles is assigned, the count is logged and the
\* loop starts.
ReaddirOk ==
  /\ pc = "walk"
  /\ \E dir \in pending :
       /\ CanList(dir)
       /\ LET subs == SubDirs(dir)
              rest == (pending \ {dir}) \cup subs
              found == getSvgFiles(RAW_DIR)
              calls == [k \in 1..Len(readdir(dir)) |->
                          Ev("call", "readdir", Append(dir, readdir(dir)[k].name))]
              issued == SelectSeq(calls, LAMBDA e : e.arg \in subs)
          IN /\ listed' = listed \cup {dir}
             /\ pending' = rest
             /\ IF rest # {}
                THEN /\ events' = events \o <<Ev("ok", "readdir", dir)>> \o issued
                     /\ UNCHANGED <<pc, allSvgFiles, i>>
                ELSE /\ allSvgFiles' = found
                     /\ IF found = <<>>
                        THEN /\ pc' = "manifest"
                             /\ i' = 0
                             /\ events' = events \o <<Ev("ok", "readdir", dir),
                                                      Log("found", 0)>>
                                                 \o AfterLoop(0)
                        ELSE /\ pc' = "read"
                             /\ i' = 1
                             /\ events' = events \o <<Ev("ok", "readdir", dir),
                                                      Log("found", Len(found)),
                                                      Ev("call", "read", found[1])>>
  /\ UNCHANGED <<rawExists, tree, destExists, dest, dest0, optimizedSvg,
                 exitCode, run, prevDest, prevExit>>

\* Variant of ReaddirFail: the entry whose listing fails is skipped and the
\* walk goes on.
ReaddirFailSkips ==
  /\ pc = "walk"
  /\ \E dir \in pending :
       /\ pending' = pending \ {dir}
       /\ events' = events \o <<Ev("err", "readdir", dir)>>
  /\ UNCHANGED <<rawExists, tree, destExists, dest, dest0, pc, listed,
                 allSvgFiles, i, optimizedSvg, exitCode, run, prevDest,
                 prevExit>>

\* A readdir rejects (the directory is missing or unreadable): Promise.all
\* rejects and the rejection reaches the catch block.
ReaddirFail ==
  /\ pc = "walk"
  /\ \E dir \in pending : Catch(<<>>, "readdir", dir)

\* readFile resolves and optimizeSvg returns: the write is issued.
ReadOptimize ==
  /\ pc = "read"
  /\ LET filePath == allSvgFiles[i]
         file == FileOf(filePath)
         content == readFile(filePath)
     IN /\ optimizedSvg' = optimizeSvg(content, file)
        /\ events' = events \o <<Ev("ok", "read", filePath),
                                 Ev("call", "optimize", Config(file)),
                                 Ev("ok", "optimize", file),
                                 Ev("call", "write", outputPath(file))>>
  /\ pc' = "write"
  /\ UNCHANGED <<rawExists, tree, destExists, dest, dest0, pending, listed,
                 allSvgFiles, i, exitCode, run, prevDest, prevExit>>

\* Variant of ReadFail: the read that failed is issued again.
ReadFailRetries ==
  /\ pc = "read"
  /\ events' = events \o <<Ev("err", "read", allSvgFiles[i]),
                           Ev("call", "read", allSvgFiles[i])>>
  /\ UNCHANGED <<rawExists, tree, destExists, dest, dest0, pc, pending,
                 listed, allSvgFiles, i, optimizedSvg, exitCode, run,
                 prevDest, prevExit>>

ReadFail ==
  /\ pc = "read"
  /\ Catch(<<>>, "read", allSvgFiles[i])

\* readFile resolves and the engine throws on the content.
OptimizeThrows ==
  /\ pc = "read"
  /\ LET filePath == allSvgFiles[i]
         file == FileOf(filePath)
     IN Catch(<<Ev("ok", "read", filePath),
                Ev("call", "optimize", Config(file))>>, "optimize", file)

\* Variant of WriteOk: the confirmation line of the file is not logged.
WriteOkSilent ==
  /\ pc = "write"
  /\ LET file == FileOf(allSvgFiles[i])
         n == Len(allSvgFiles)
     IN /\ dest' = writeFile(dest, file, optimizedSvg)
        /\ IF i < n
           THEN /\ i' = i + 1
                /\ pc' = "read"
                /\ events' = events \o <<Ev("ok", "write", outputPath(file)),
                                         Ev("call", "read", allSvgFiles[i + 1])>>
           ELSE /\ i' = i
                /\ pc' = "manifest"
                /\ events' = events \o <<Ev("ok", "write", outputPath(file))>>
                                    \o AfterLoop(n)
  /\ optimizedSvg' = NoData
  /\ UNCHANGED <<rawExists, tree, destExists, dest0, pending, listed,
                 allSvgFiles, exitCode, run, prevDest, prevExit>>

\* Variant of WriteOk: the loop steps over the file after the current one.
WriteOkSkipsNext ==
  /\ pc = "write"
  /\ LET file == FileOf(allSvgFiles[i])
         n == Len(allSvgFiles)
     IN /\ dest' = writeFile(dest, file, optimizedSvg)
        /\ IF i + 1 < n
           THEN /\ i' = i + 2
                /\ pc' = "read"
                /\ events' = events \o <<Ev("ok", "write", outputPath(file)),
                                         Log("optimized", file),
                                         Ev("call", "read", allSvgFiles[i + 2])>>
           ELSE /\ i' = i
                /\ pc' = "manifest"
                /\ events' = events \o <<Ev("ok", "write", outputPath(file)),
                                         Log("optimized", file)>>
                                    \o AfterLoop(n)
  /\ optimizedSvg' = NoData
  /\ UNCHANGED <<rawExists, tree, destExists, dest0, pending, listed,
                 allSvgFiles, exitCode, run, prevDest, prevExit>>

\* Variant of WriteOk: the manifest is rewritten after every optimized file,
\* with the names of the files processed so far.
WriteOkUpdatesManifest ==
  /\ pc = "write"
  /\ LET file == FileOf(allSvgFiles[i])
         n == Len(allSvgFiles)
     IN /\ dest' = writeFile(writeFile(dest, file, optimizedSvg), ManifestName,
                             Stringify(SubSeq(iconNames, 1, i)))
        /\ IF i < n
           THEN /\ i' = i + 1
                /\ pc' = "read"
                /\ events' = events \o <<Ev("ok", "write", outputPath(file)),
                                         Log("optimized", file),
                                         Ev("call", "read", allSvgFiles[i + 1])>>
           ELSE /\ i' = i
                /\ pc' = "manifest"
                /\ events' = events \o <<Ev("ok", "write", outputPath(file)),
                                         Log("optimized", file)>>
                                    \o AfterLoop(n)
  /\ optimizedSvg' = NoData
  /\ UNCHANGED <<rawExists, tree, destExists, dest0, pending, listed,
                 allSvgFiles, exitCode, run, prevDest, prevExit>>

\* The write of the optimized file resolves: its line is logged and the
\* loop goes on to the next file or ends.
WriteOk ==
  /\ pc = "write"
  /\ LET file == FileOf(allSvgFiles[i])
         n == Len(allSvgFiles)
     IN /\ dest' = writeFile(dest, file, optimizedSvg)
        /\ IF i < n
           THEN /\ i' = i + 1
                /\ pc' = "read"
                /\ events' = events \o <<Ev("ok", "write", outputPath(file)),
                                         Log("optimized", file),
                                         Ev("call", "read", allSvgFiles[i + 1])>>
           ELSE /\ i' = i
                /\ pc' = "manifest"
                /\ events' = events \o <<Ev("ok", "write", outputPath(file)),
                                         Log("optimized", file)>>
                                    \o AfterLoop(n)
  /\ optimizedSvg' = NoData
  /\ UNCHANGED <<rawExists, tree, destExists, dest0, pending, listed,
                 allSvgFiles, exitCode, run, prevDest, prevExit>>

\* The write of the optimized file rejects; the file system is an abstract
\* capability whose write takes effect as a whole or not at all.
WriteFail ==
  /\ pc = "write"
  /\ Catch(<<>>, "write", outputPath(FileOf(allSvgFiles[i])))

\* The manifest write resolves; processFiles returns and the process ends
\* with exit code 0.
ManifestOk ==
  /\ pc = "manifest"
  /\ dest' = writeFile(dest, ManifestName, Stringify(iconNames))
  /\ pc' = "done"
  /\ exitCode' = <<0>>
  /\ events' = events \o <<Ev("ok", "write", manifestPath),
                           Log("manifest", manifestPath),
                           Ev("exit", "exit", 0)>>
  /\ UNCHANGED <<rawExists, tree, destExists, dest0, pending, listed,
                 allSvgFiles, i, optimizedSvg, run, prevDest, prevExit>>

\* The manifest write rejects, leaving the destination as it was.
ManifestFail ==
  /\ pc = "manifest"
  /\ Catch(<<>>, "write", manifestPath)

\* ------------------------------------------------------------------- runs
\* Number of runs of the script on the same source tree.
MaxRuns == 2

StartEvents == <<Ev("call", "access", OPTIMIZED_DIR)>>

\* The script is started again on the same source tree after a run that
\* succeeded.
Rerun ==
  /\ pc = "done"
  /\ run < MaxRuns
  /\ run' = run + 1
  /\ prevDest' = dest
  /\ prevExit' = exitCode
  /\ dest0' = dest
  /\ pc' = "access"
  /\ pending' = {}
  /\ listed' = {}
  /\ allSvgFiles' = <<>>
  /\ i' = 0
  /\ optimizedSvg' = NoData
  /\ events' = StartEvents
  /\ exitCode' = NoExit
  /\ UNCHANGED <<rawExists, tree, destExists, dest>>

Init ==
  /\ rawExists \in BOOLEAN
  /\ tree \in Trees
  /\ ~rawExists => tree = <<>>
  /\ \E d \in {<<FALSE, EmptyDir>>, <<TRUE, EmptyDir>>, <<TRUE, StaleDir>>} :
       /\ destExists = d[1]
       /\ dest = d[2]
  /\ dest0 = dest
  /\ pc = "access"
  /\ pending = {}
  /\ listed = {}
  /\ allSvgFiles = <<>>
  /\ i = 0
  /\ optimizedSvg = NoData
  /\ events = StartEvents
  /\ exitCode = NoExit
  /\ run = 1
  /\ prevDest = EmptyDir
  /\ prevExit = NoExit

Next ==
  \/ AccessOk
  \/ AccessFail
  \/ MkdirOk
  \/ MkdirFail
  \/ ReaddirOk
  \/ ReaddirFail
  \/ ReadOptimize
  \/ ReadFail
  \/ OptimizeThrows
  \/ WriteOk
  \/ WriteFail
  \/ ManifestOk
  \/ ManifestFail
  \/ Rerun

Spec == Init /\ [][Next]_vars

\* ================================================================ claims
\* Positions of the events of the current run.
Pos == 1..Len(events)
IsEv(k, kind, op) == events[k].kind = kind /\ events[k].op = op
IsFileWrite(k, kind) == IsEv(k, kind, "write") /\ events[k].arg # manifestPath
IsManifestWrite(k, kind) == IsEv(k, kind, "write") /\ events[k].arg = manifestPath

\* A step of the run failed (a failing access probe is handled by ensureDir).
StepFailed == \E k \in Pos : events[k].kind = "err" /\ events[k].op # "access"
ManifestWritten == \E k \in Pos : IsManifestWrite(k, "ok")
\* Names of the optimized files written by the current run.
WrittenFiles == {basename(PathStr(events[k].arg)) : k \in {m \in Pos : IsFileWrite(m, "ok")}}
Terminated == pc \in {"done", "failed"}
ManifestOf(d) == IF ManifestName \in DOMAIN d THEN <<d[ManifestName]>> ELSE <<>>

\* Stem of a file name: the name with its extension (the part from the last
\* ".", when that is not the first character) removed.
Stem(name) ==
  LET dots == {k \in 2..Len(name) : name[k] = "."}
  IN IF dots = {} THEN name
     ELSE SubSeq(name, 1, (CHOOSE k \in dots : \A m \in dots : m <= k) - 1)

\* C1: in a run where some step failed, manifest.json is not written (the
\* manifest in the destination is the one the run started with), the exit
\* code is never 0, and the run has ended with exit code 1.
C1_FailureNoManifestExitOne ==
  StepFailed =>
    /\ ~ManifestWritten
    /\ ManifestOf(dest) = ManifestOf(dest0)
    /\ exitCode = <<1>>
    /\ pc = "failed"

C1_Witness ==
  /\ pc = "failed"
  /\ \E k \in Pos : IsEv(k, "err", "optimize")
  /\ \E k \in Pos : IsFileWrite(k, "ok")

\* C2: when a run has written the manifest, the number of its entries equals
\* the number of distinct optimized files the run wrote, and every entry is
\* the name of one of them.
C2_ManifestOneToOne ==
  ManifestWritten =>
    LET icons == dest[ManifestName].icons
    IN /\ Len(icons) = Cardinality(WrittenFiles)
       /\ \A k \in 1..Len(icons) :
            \E f \in WrittenFiles : icons[k] \in {Stem(f), basenameExt(f, DotSvg)}

\* C3: after a successful run manifest.icons is the sequence of the stems of
\* the discovered files, in discovery order.
C3_ManifestIsStems ==
  pc = "done" =>
    dest[ManifestName].icons =
      [k \in 1..Len(allSvgFiles) |-> Stem(allSvgFiles[k][Len(allSvgFiles[k])])]

\* C4: every configuration handed to the transform has the prefixIds prefix
\* stem of the file name followed by "-".
C4_PrefixIsStemDash ==
  \A k \in Pos :
    IsEv(k, "call", "optimize") =>
      events[k].arg.plugins[2].params = Stem(events[k].arg.path) \o Dash

\* C5: two files of one run that go to different destination files get
\* different prefixIds prefixes.
C5_PrefixesUnique ==
  \A k, m \in Pos :
    /\ IsEv(k, "call", "optimize")
    /\ IsEv(m, "call", "optimize")
    /\ events[k].arg.path # events[m].arg.path
    => events[k].arg.plugins[2].params # events[m].arg.plugins[2].params

RECURSIVE AllFiles(_, _)
\* Paths of all files, at any depth, of the listing l of directory dir.
AllFiles(l, dir) ==
  UNION {IF l[k].isDir THEN AllFiles(l[k].kids, Append(dir, l[k].name))
         ELSE {Append(dir, l[k].name)} : k \in 1..Len(l)}

\* The extension of the name is ".svg" in some letter case.
ExtMatches(name) ==
  /\ Len(name) >= Len(DotSvg)
  /\ toLowerCase(SubSeq(name, Len(name) - Len(DotSvg) + 1, Len(name))) = DotSvg

MatchedNames ==
  {p[Len(p)] : p \in {q \in AllFiles(tree, RAW_DIR) : ExtMatches(q[Len(q)])}}

\* Number of per-file writes that succeeded before position k.
FileWritesBefore(k) == Cardinality({j \in 1..(k - 1) : IsFileWrite(j, "ok")})

\* C6: after a successful run that started with an empty destination, the
\* files of the destination other than manifest.json are the base names of
\* the source files, at any depth, whose extension is ".svg" in any case.
C6_DestinationIsMatchedNames ==
  (pc = "done" /\ dest0 = EmptyDir) =>
    DOMAIN dest \ {ManifestName} = MatchedNames

C6_Witness ==
  /\ pc = "done"
  /\ dest0 = EmptyDir
  /\ \E p \in AllFiles(tree, RAW_DIR) : Len(p) > 2 /\ ExtMatches(p[Len(p)])
  /\ \E p \in AllFiles(tree, RAW_DIR) : ~ExtMatches(p[Len(p)])
  /\ <<"a", ".", "S", "V", "G">> \in DOMAIN dest

\* C7: every write is issued after ensureDir has completed (its access or
\* its mkdir resolved), and the manifest write is issued only after the
\* write of every discovered file has succeeded.
C7_Barriers ==
  \A k \in Pos :
    IsEv(k, "call", "write") =>
      /\ \E j \in 1..(k - 1) : IsEv(j, "ok", "access") \/ IsEv(j, "ok", "mkdir")
      /\ events[k].arg = manifestPath =>
           /\ FileWritesBefore(k) = Len(allSvgFiles)
           /\ \A n \in 1..Len(allSvgFiles) :
                \E j \in 1..(k - 1) :
                  IsFileWrite(j, "ok")
                  /\ events[j].arg = outputPath(FileOf(allSvgFiles[n]))

C7_Witness ==
  /\ pc = "done"
  /\ Len(allSvgFiles) >= 2
  /\ \E k \in Pos : IsEv(k, "ok", "mkdir")

\* C8 as stated: the summary line is logged only after the manifest has
\* been written.
C8_SummaryAfterManifest ==
  \A k \in Pos :
    IsEv(k, "log", "complete") =>
      \E j \in 1..(k - 1) : IsManifestWrite(j, "ok")

\* C8 amended: the summary line is logged after the write of every
\* discovered file has succeeded and before the manifest write is issued;
\* a run whose manifest write fails has logged it.
C8_SummaryBeforeManifest ==
  /\ \A k \in Pos :
       IsEv(k, "log", "complete") =>
         /\ FileWritesBefore(k) = Len(allSvgFiles)
         /\ events[k].arg = Len(allSvgFiles)
         /\ \A j \in 1..(k - 1) : ~IsManifestWrite(j, "call")
  /\ \A k \in Pos :
       IsManifestWrite(k, "call") =>
         \E j \in 1..(k - 1) : IsEv(j, "log", "complete")

C8_Witness ==
  /\ pc = "failed"
  /\ Len(allSvgFiles) >= 1
  /\ \E k \in Pos : IsManifestWrite(k, "err")
  /\ \E k \in Pos : IsEv(k, "log", "complete")

\* C9: when the source root does not exist, the run never succeeds, issues
\* no write and leaves the destination's files as they were; once it has
\* ended, its exit code is 1.
C9_MissingRootFails ==
  ~rawExists =>
    /\ pc # "done"
    /\ exitCode # <<0>>
    /\ \A k \in Pos : ~IsEv(k, "call", "write")
    /\ dest = dest0
    /\ pc \notin {"read", "write", "manifest"}
    /\ Terminated => exitCode = <<1>>

C9_Witness ==
  /\ ~rawExists
  /\ pc = "failed"
  /\ exitCode = <<1>>
  /\ \E k \in Pos : IsEv(k, "err", "readdir") /\ events[k].arg = RAW_DIR
  /\ \E k \in Pos : IsEv(k, "ok", "mkdir")

\* C10: when a run succeeds right after a successful run on the same source
\* tree, the destination (optimized files and manifest) is what the first
\* run left.
C10_RerunIdempotent ==
  (run > 1 /\ prevExit = <<0>> /\ pc = "done") => dest = prevDest

C10_Witness ==
  /\ run > 1
  /\ prevExit = <<0>>
  /\ pc = "done"
  /\ Len(allSvgFiles) >= 2
  /\ Cardinality(DOMAIN dest) >= 3

\* Positions of the events of one kind and operation.
EvPos(kind, op) == {k \in Pos : IsEv(k, kind, op)}
Count(kind, op) == Cardinality(EvPos(kind, op))
\* Index in allSvgFiles of the last discovered file with base filename f.
LastWith(f) ==
  CHOOSE k \in 1..Len(allSvgFiles) :
    /\ FileOf(allSvgFiles[k]) = f
    /\ \A m \in 1..Len(allSvgFiles) : FileOf(allSvgFiles[m]) = f => m <= k
\* Two discovered files in different directories share a base filename.
HasDuplicate ==
  \E k, m \in 1..Len(allSvgFiles) :
    k < m /\ FileOf(allSvgFiles[k]) = FileOf(allSvgFiles[m])

\* C11: when discovered files share a base filename the run still succeeds,
\* the destination holds one file of that name per distinct name, and its
\* content is the transform of the file that is last in discovery order.
C11_LaterFileOverwrites ==
  pc = "done" =>
    /\ ~StepFailed
    /\ Cardinality(WrittenFiles) =
         Cardinality({FileOf(allSvgFiles[k]) : k \in 1..Len(allSvgFiles)})
    /\ \A k \in 1..Len(allSvgFiles) :
         LET f == FileOf(allSvgFiles[k])
         IN /\ f \in DOMAIN dest
            /\ dest[f] = optimize(readFile(allSvgFiles[LastWith(f)]),
                                  Config(f))

C11_Witness ==
  /\ pc = "done"
  /\ exitCode = <<0>>
  /\ HasDuplicate
  /\ Cardinality(WrittenFiles) < Len(allSvgFiles)

\* C12: the discovered count is logged after every readdir has resolved and
\* before the first read is issued; a file's confirmation line directly
\* follows the success of its write; the number of confirmation lines is
\* always the number of per-file writes that succeeded.
C12_ProgressFollowsProcessing ==
  /\ \A k \in EvPos("log", "found") :
       /\ events[k].arg = Len(allSvgFiles)
       /\ \A j \in EvPos("call", "readdir") \cup EvPos("ok", "readdir") : j < k
       /\ Count("call", "readdir") = Count("ok", "readdir")
       /\ \A j \in EvPos("call", "read") : k < j
  /\ Count("log", "found") <= 1
  /\ EvPos("call", "read") # {} => Count("log", "found") = 1
  /\ \A k \in EvPos("log", "optimized") :
       /\ k > 1
       /\ IsFileWrite(k - 1, "ok")
       /\ events[k - 1].arg = outputPath(events[k].arg)
  /\ Count("log", "optimized") = Cardinality({k \in Pos : IsFileWrite(k, "ok")})

C12_Witness ==
  /\ pc = "write"
  /\ Count("log", "optimized") = 1
  /\ Count("ok", "readdir") >= 2

\* C13: for a source tree without a matching file the run issues no read
\* and no optimized-file write; when no step fails it ends with exit code 0
\* and a manifest whose icons are the empty list.
C13_NoMatchingFile ==
  (rawExists /\ MatchedNames = {}) =>
    /\ Count("call", "read") = 0
    /\ \A k \in Pos : ~IsFileWrite(k, "call")
    /\ Count("call", "optimize") = 0
    /\ (Terminated /\ ~StepFailed) =>
         /\ pc = "done"
         /\ exitCode = <<0>>
         /\ dest[ManifestName] = Stringify(<<>>)
         /\ DOMAIN dest = DOMAIN dest0 \cup {ManifestName}

C13_Witness ==
  /\ pc = "done"
  /\ MatchedNames = {}
  /\ AllFiles(tree, RAW_DIR) # {}
  /\ dest[ManifestName] = Stringify(<<>>)

\* C14: every configuration handed to the transform has path equal to the
\* file name, multipass true, and the five steps in the documented order
\* with the documented parameters; two calls for the same file name get
\* equal configurations.
C14_ConfigShape ==
  /\ \A k \in EvPos("call", "optimize") :
       LET c == events[k].arg
       IN /\ DOMAIN c = {"path", "multipass", "plugins"}
          /\ c.path = basename(PathStr(events[k - 1].arg))
          /\ c.multipass = TRUE
          /\ [n \in 1..Len(c.plugins) |-> c.plugins[n].name] =
               <<"preset-default", "prefixIds", "removeXMLNS", "sortAttrs",
                 "addAttributesToSVGElement">>
          /\ c.plugins[1].params = "no overrides"
          /\ c.plugins[3].params = "none"
          /\ c.plugins[4].params = "none"
          /\ c.plugins[5].params = <<"aria-hidden=true", "width=24",
                                     "height=24", "fill=currentColor">>
  /\ \A k, m \in EvPos("call", "optimize") :
       events[k].arg.path = events[m].arg.path => events[k].arg = events[m].arg

C14_Witness ==
  /\ Count("call", "optimize") >= 2
  /\ HasDuplicate
  /\ \E k, m \in EvPos("call", "optimize") :
       k < m /\ events[k].arg.path = events[m].arg.path

\* The arguments of the read calls, in the order they were issued.
ReadCalls == SelectSeq(events, LAMBDA e : e.kind = "call" /\ e.op = "read")

\* C15: files are processed one at a time in discovery order: the n-th read
\* is issued for the n-th discovered file after n-1 per-file writes have
\* succeeded, and a successful run has read and transformed every
\* discovered file exactly once.
C15_Sequential ==
  /\ Len(ReadCalls) <= Len(allSvgFiles)
  /\ \A n \in 1..Len(ReadCalls) : ReadCalls[n].arg = allSvgFiles[n]
  /\ \A k \in EvPos("call", "read") :
       FileWritesBefore(k) = Cardinality({j \in EvPos("call", "read") : j < k})
  /\ pc = "done" =>
       /\ Len(ReadCalls) = Len(allSvgFiles)
       /\ Count("ok", "read") = Len(allSvgFiles)
       /\ Count("call", "optimize") = Len(allSvgFiles)
       /\ Count("ok", "optimize") = Len(allSvgFiles)

C15_Witness ==
  /\ pc = "done"
  /\ Len(allSvgFiles) = 3

\* ------------------------------------------------------- discovery alone
\* Largest number of entries of the source trees of SpecWalk.
MaxWalkNodes == 4

WalkFileNames == { <<"a", ".", "s", "v", "g">>, <<"b", ".", "t", "x", "t">> }

WalkTrees == Listings(MaxWalkNodes, WalkFileNames, DirNames)

InitWalk ==
  /\ rawExists = TRUE
  /\ tree \in WalkTrees
  /\ destExists = TRUE
  /\ dest = EmptyDir
  /\ dest0 = dest
  /\ pc = "access"
  /\ pending = {}
  /\ listed = {}
  /\ allSvgFiles = <<>>
  /\ i = 0
  /\ optimizedSvg = NoData
  /\ events = StartEvents
  /\ exitCode = NoExit
  /\ run = 1
  /\ prevDest = EmptyDir
  /\ prevExit = NoExit

\* The steps of a run up to the end of discovery.
NextWalk ==
  \/ AccessOk
  \/ AccessFail
  \/ MkdirOk
  \/ MkdirFail
  \/ ReaddirOk
  \/ ReaddirFail

SpecWalk == InitWalk /\ [][NextWalk]_vars

RECURSIVE DepthFirst(_, _)
\* The matching files of listing l of directory dir in depth-first order:
\* the files of a subdirectory stand where its entry stands.
DepthFirst(l, dir) ==
  IF l = <<>> THEN <<>>
  ELSE LET e == Head(l)
           here == IF e.isDir THEN DepthFirst(e.kids, Append(dir, e.name))
                   ELSE IF ExtMatches(e.name) THEN <<Append(dir, e.name)>>
                   ELSE <<>>
       IN here \o DepthFirst(Tail(l), dir)

Parent(p) == SubSeq(p, 1, Len(p) - 1)

\* C16: during discovery the readdir of every subdirectory of a listed
\* directory has been issued (they are in flight together), and the
\* sequence discovery returns is the depth-first order of the listings,
\* whatever the order in which the readdir calls resolved.
C16_WalkOrder ==
  /\ pc = "walk" =>
       /\ pending = {events[k].arg : k \in EvPos("call", "readdir")}
                      \ {events[k].arg : k \in EvPos("ok", "readdir")}
       /\ \A d \in listed : SubDirs(d) \subseteq pending \cup listed
  /\ Count("log", "found") = 1 =>
       /\ allSvgFiles = DepthFirst(tree, RAW_DIR)
       /\ listed = {events[k].arg : k \in EvPos("ok", "readdir")}

\* Two sibling directories both hold matching files and the readdir of the
\* one listed later resolved first.
C16_Witness ==
  /\ Count("log", "found") = 1
  /\ \E x, y \in 1..Len(allSvgFiles) :
       /\ x < y
       /\ Len(allSvgFiles[x]) = Len(allSvgFiles[y])
       /\ Len(allSvgFiles[x]) > 2
       /\ Parent(allSvgFiles[x]) # Parent(allSvgFiles[y])
       /\ \E j, k \in EvPos("ok", "readdir") :
            /\ j < k
            /\ events[j].arg = Parent(allSvgFiles[y])
            /\ events[k].arg = Parent(allSvgFiles[x])

RECURSIVE WrittenUpTo(_)
\* The destination after the optimized outputs of the first n discovered
\* files were written over the destination the run started with.
WrittenUpTo(n) ==
  IF n = 0 THEN dest0
  ELSE LET f == FileOf(allSvgFiles[n])
       IN (f :> optimize(readFile(allSvgFiles[n]), Config(f))) @@ WrittenUpTo(n - 1)

\* Positions of the failures that reach the catch block.
Failures == {k \in Pos : events[k].kind = "err" /\ events[k].op # "access"}
\* The run failed while it processed a discovered file.
FailedInLoop ==
  /\ pc = "failed"
  /\ \E k \in Failures :
       events[k].op \in {"read", "optimize"} \/ IsFileWrite(k, "err")

\* A step of the running script (everything but a new start of it).
RunStep ==
  \/ AccessOk \/ AccessFail \/ MkdirOk \/ MkdirFail \/ ReaddirOk \/ ReaddirFail
  \/ ReadOptimize \/ ReadFail \/ OptimizeThrows \/ WriteOk \/ WriteFail
  \/ ManifestOk \/ ManifestFail

\* C17: when processing fails at the i-th discovered file, the destination
\* is the initial one with the outputs of files 1..i-1 written, no later
\* file was read, transformed or written, nothing was issued after the
\* failure, and the failed run takes no further step.
C17_FirstFailureFinal ==
  /\ FailedInLoop =>
       /\ dest = WrittenUpTo(i - 1)
       /\ Len(ReadCalls) = i
       /\ \A n \in 1..Len(ReadCalls) : ReadCalls[n].arg = allSvgFiles[n]
       /\ Count("call", "optimize") <= i
       /\ Cardinality({k \in Pos : IsFileWrite(k, "call")}) <= i
       /\ Cardinality({k \in Pos : IsFileWrite(k, "ok")}) = i - 1
       /\ \A k \in Pos : ~IsManifestWrite(k, "call")
  /\ \A k \in Failures :
       /\ pc = "failed"
       /\ \A j \in Pos : j > k => events[j].kind \in {"log", "exit"}
       /\ Cardinality(Failures) = 1
  /\ pc = "failed" =>
       /\ events[Len(events)] = Ev("exit", "exit", 1)
       /\ pending = {}
       /\ ~ENABLED RunStep

C17_Witness ==
  /\ FailedInLoop
  /\ i = 2
  /\ Len(allSvgFiles) = 3
  /\ FileOf(allSvgFiles[1]) \in DOMAIN dest
  /\ \E k \in Failures : IsFileWrite(k, "err")

\* C18: once the listing of any directory has failed, the run has failed
\* with exit code 1 before processing: no file was read, nothing was written
\* and the destination is as the run found it.
C18_ListingFailureIsFatal ==
  Count("err", "readdir") > 0 =>
    /\ pc = "failed"
    /\ exitCode = <<1>>
    /\ allSvgFiles = <<>>
    /\ Count("call", "read") = 0
    /\ Count("call", "optimize") = 0
    /\ Count("call", "write") = 0
    /\ dest = dest0

\* A subdirectory's listing fails after the root, which holds a matching
\* file, was listed.
C18_Witness ==
  /\ pc = "failed"
  /\ \E k \in EvPos("err", "readdir") : Len(events[k].arg) > Len(RAW_DIR)
  /\ RAW_DIR \in listed
  /\ \E p \in AllFiles(tree, RAW_DIR) : Len(p) = 2 /\ ExtMatches(p[2])

\* C19: mkdir is issued exactly when the access probe fails, at most once,
\* right after the probe; a probe that succeeds is never followed by a
\* mkdir; a mkdir that fails ends the run with exit code 1 before discovery.
C19_EnsureDir ==
  /\ Count("call", "access") = 1
  /\ Count("call", "mkdir") = Count("err", "access")
  /\ Count("call", "mkdir") <= 1
  /\ Count("ok", "access") + Count("err", "access") <= 1
  /\ \A k \in EvPos("call", "mkdir") : k > 1 /\ IsEv(k - 1, "err", "access")
  /\ Count("ok", "access") > 0 => (destExists /\ Count("call", "mkdir") = 0)
  /\ Count("ok", "mkdir") > 0 => destExists
  /\ Count("err", "mkdir") > 0 =>
       /\ pc = "failed"
       /\ exitCode = <<1>>
       /\ Count("call", "readdir") = 0
       /\ dest = dest0

C19_Witness ==
  /\ Count("ok", "mkdir") = 1
  /\ destExists
  /\ dest0 = EmptyDir
  /\ pc = "done"

\* C20: a run in which a step failed has logged the error line exactly once,
\* directly after the failure and directly before it exits with code 1, and
\* nothing is read, written or logged after it; a run without a failure
\* logs no error line.
C20_ErrorReportedOnce ==
  /\ Count("log", "error") = Cardinality(Failures)
  /\ Count("log", "error") <= 1
  /\ \A k \in EvPos("log", "error") :
       /\ k - 1 \in Failures
       /\ k + 1 = Len(events)
       /\ events[k + 1] = Ev("exit", "exit", 1)
       /\ exitCode = <<1>>
       /\ pc = "failed"
  /\ exitCode = <<1>> => Count("log", "error") = 1

C20_Witness ==
  /\ pc = "failed"
  /\ Count("log", "error") = 1
  /\ Count("log", "optimized") >= 1
  /\ \E k \in Failures : events[k].op = "read"

\* Paths the run writes to or creates.
Targets == {events[k].arg : k \in {m \in Pos : events[m].op \in {"write", "mkdir"}}}
\* Paths of the source root and of everything under it.
UnderSource(p) == Len(p) >= Len(RAW_DIR) /\ SubSeq(p, 1, Len(RAW_DIR)) = RAW_DIR

\* C21: every write of a run goes to a path directly under the destination
\* root whose last component is the base name of a discovered file or
\* manifest.json, the only directory the run creates is the destination
\* root, no path written or created lies in the source tree, and no step
\* of a run (nor a new start of the script) changes the source tree.
C21_SourceUntouched ==
  /\ [](/\ \A k \in Pos : events[k].op = "write" =>
            /\ Parent(events[k].arg) = OPTIMIZED_DIR
            /\ events[k].arg[Len(events[k].arg)] \in
                 {FileOf(allSvgFiles[n]) : n \in 1..Len(allSvgFiles)}
                   \cup {ManifestName}
        /\ \A k \in Pos : events[k].op = "mkdir" => events[k].arg = OPTIMIZED_DIR
        /\ \A p \in Targets : ~UnderSource(p) /\ p \notin AllFiles(tree, RAW_DIR))
  /\ [][tree' = tree /\ rawExists' = rawExists]_vars

\* A failed run that wrote the output of a file found in a subdirectory of
\* the source root before a later write failed.
C21_Witness ==
  /\ pc = "failed"
  /\ \E k \in Pos : IsFileWrite(k, "err")
  /\ \E k \in Pos : IsFileWrite(k, "ok")
  /\ \E n \in 1..Len(allSvgFiles) :
       /\ Len(allSvgFiles[n]) > 2
       /\ FileOf(allSvgFiles[n]) \in DOMAIN dest
       /\ allSvgFiles[n] \in AllFiles(tree, RAW_DIR)

\* ------------------------------------------------------------- manifest.json
\* One run on a source tree that may hold a file named manifest.json.
MaxManifestNodes == 3
ManifestFileNames == { <<"a", ".", "s", "v", "g">>, ManifestName }
ManifestTrees == Listings(MaxManifestNodes, ManifestFileNames, TreeDirNames)

InitManifest ==
  /\ rawExists = TRUE
  /\ tree \in ManifestTrees
  /\ \E d \in {<<FALSE, EmptyDir>>, <<TRUE, EmptyDir>>, <<TRUE, StaleDir>>} :
       /\ destExists = d[1]
       /\ dest = d[2]
  /\ dest0 = dest
  /\ pc = "access"
  /\ pending = {}
  /\ listed = {}
  /\ allSvgFiles = <<>>
  /\ i = 0
  /\ optimizedSvg = NoData
  /\ events = StartEvents
  /\ exitCode = NoExit
  /\ run = 1
  /\ prevDest = EmptyDir
  /\ prevExit = NoExit

SpecManifest == InitManifest /\ [][RunStep]_vars

\* C22: every discovered file has a base name that ends in ".svg" whatever
\* the letter case and so is not manifest.json; the write issued for a
\* discovered file never targets the manifest path and the manifest path is
\* written at most once, after the summary line; until then the manifest in
\* the destination is the one the run found; after a successful run the
\* destination holds the manifest of the run under manifest.json and an
\* optimizer output under the base name of every discovered file.
C22_ManifestNeverClashes ==
  /\ \A n \in 1..Len(allSvgFiles) :
       /\ ExtMatches(FileOf(allSvgFiles[n]))
       /\ FileOf(allSvgFiles[n]) # ManifestName
  /\ \A k \in EvPos("call", "write") :
       /\ IsEv(k - 1, "ok", "optimize") => events[k].arg # manifestPath
       /\ events[k].arg = manifestPath => IsEv(k - 1, "log", "complete")
  /\ Cardinality({k \in EvPos("call", "write") : events[k].arg = manifestPath}) <= 1
  /\ Count("log", "manifest") = 0 => ManifestOf(dest) = ManifestOf(dest0)
  /\ pc = "done" =>
       /\ dest[ManifestName] = Stringify(iconNames)
       /\ \A n \in 1..Len(allSvgFiles) :
            LET f == FileOf(allSvgFiles[n])
            IN /\ f \in DOMAIN dest
               /\ \E m \in 1..Len(allSvgFiles) :
                    /\ FileOf(allSvgFiles[m]) = f
                    /\ dest[f] = optimize(readFile(allSvgFiles[m]), Config(f))

\* A successful run on a source tree that holds a file named manifest.json
\* next to a matching file, with a manifest already in the destination.
C22_Witness ==
  /\ pc = "done"
  /\ Len(allSvgFiles) >= 1
  /\ \E p \in AllFiles(tree, RAW_DIR) : p[Len(p)] = ManifestName
  /\ ManifestName \in DOMAIN dest0

\* C23: a failed run leaves the manifest.json the destination held when the
\* run started exactly as it was (in a later run of the script, the manifest
\* of the run before); as long as the manifest write of a run has not
\* succeeded the manifest in the destination is the one the run found, and
\* when it has succeeded every discovered file was written before it.
C23_FailedRunKeepsManifest ==
  /\ (pc = "failed" /\ ManifestName \in DOMAIN dest0) =>
       /\ ManifestName \in DOMAIN dest
       /\ dest[ManifestName] = dest0[ManifestName]
       /\ run > 1 => dest[ManifestName] = prevDest[ManifestName]
  /\ ~ManifestWritten => ManifestOf(dest) = ManifestOf(dest0)
  /\ ManifestWritten =>
       /\ pc = "done"
       /\ Count("log", "found") = 1
       /\ Cardinality({k \in Pos : IsFileWrite(k, "ok")}) = Len(allSvgFiles)
       /\ \A k \in Pos : IsFileWrite(k, "ok") =>
            \E m \in Pos : m > k /\ IsManifestWrite(m, "ok")

\* A second run that overwrote an optimized file of the first run and then
\* failed, with the manifest of the first run still in the destination.
C23_Witness ==
  /\ run > 1
  /\ pc = "failed"
  /\ \E k \in Pos :
       /\ IsFileWrite(k, "ok")
       /\ basename(PathStr(events[k].arg)) \in DOMAIN dest0
  /\ ManifestName \in DOMAIN dest
  /\ "icons" \in DOMAIN dest[ManifestName]
  /\ Len(dest[ManifestName].icons) >= 2

====
